---------------------------- MODULE Spec2Model ----------------------------
(***************************************************************************)
(* Model of context_benchmarks.py: the token estimator, the stream         *)
(* consumer (process_stream), the request driver (make_context_request)    *)
(* and the orchestrator (run_context_benchmark).                           *)
(*                                                                         *)
(* A text is a sequence of Unicode code points.  None is the empty         *)
(* sequence << >> and a present value v is << v >>.  Time is an integer    *)
(* clock `now` that may advance whenever the code reads time.time().       *)
(***************************************************************************)
EXTENDS Integers, Sequences, FiniteSets, TLC

VARIABLES
    context_sizes,          \* argument: the list of context size labels
    num_requests_per_size,  \* argument
    concurrency,            \* argument
    request_timeout,        \* argument: << >> (no timeout) or << seconds >>
    tiktoken,               \* how the exact tokenizer behaves in this process
    now,                    \* the wall clock time.time() reads
    pc,                     \* position of run_context_benchmark
    si,                     \* index in context_sizes of the size being run (0: none yet)
    i,                      \* loop variable of the sequential for loop
    size_results,           \* local of run_context_benchmark
    test_failed,            \* local of run_context_benchmark
    all_results,            \* local of run_context_benchmark, its return value
    semaphore,              \* value of the asyncio.Semaphore of the current batch
    waiters,                \* FIFO of the tasks blocked in semaphore.acquire()
    req,                    \* every make_context_request call: <<k, j>> |-> its frame
    text,                   \* argument of a call of calculate_tokens_accurate
    tokens,                 \* what that call returned: << >> (not yet) or << n >>
    summary,                \* local of main: << >> or << analyze_context_results(...) >>
    random_state            \* the generator of the random module: the draws made from it

vars == << context_sizes, num_requests_per_size, concurrency, request_timeout,
           tiktoken, now, pc, si, i, size_results, test_failed, all_results,
           semaphore, waiters, req, text, tokens, summary, random_state >>

\* what the run of the benchmark leaves alone
calls == << text, tokens, summary >>

args == << context_sizes, num_requests_per_size, concurrency, request_timeout, tiktoken >>

\* ------------------------------------------------------------------ bounds
MaxSizes  == 3      \* longest context_sizes list
MaxReq    == 3      \* largest num_requests_per_size
MaxConc   == 2      \* largest concurrency
MaxChunks == 2      \* most chunks one stream delivers
MaxTime   == 2      \* last value of the clock
MaxLen    == 4      \* longest text handed to the token estimator
MaxGroup  == 3      \* most outcomes in a group handed to the analyzer

\* ------------------------------------------------------------------ values
None == << >>
Some(v) == << v >>

Max(a, b) == IF a >= b THEN a ELSE b

\* ------------------------------------------------------------------ token estimator
CJK_FIRST == 19968      \* '一'
CJK_LAST  == 40959      \* '鿿'

IsChinese(c) == CJK_FIRST <= c /\ c <= CJK_LAST

\* the heuristic without its floor of one token
HeuristicTokens_m(text_) ==
    LET chinese_chars == Cardinality({ p \in DOMAIN text_ : IsChinese(text_[p]) })
        english_chars == Len(text_) - chinese_chars
    IN  (8 * chinese_chars + 3 * english_chars) \div 12

\* the character heuristic: max(1, int(chinese_chars / 1.5 + english_chars / 4.0)).
\* chinese/1.5 + english/4.0 = (8*chinese + 3*english) / 12, and int() floors it.
HeuristicTokens(text_) ==
    LET chinese_chars == Cardinality({ p \in DOMAIN text_ : IsChinese(text_[p]) })
        english_chars == Len(text_) - chinese_chars
    IN  Max(1, (8 * chinese_chars + 3 * english_chars) \div 12)

\* len(encoding.encode(text)) of the exact tokenizer, which is not part of the
\* repository: a byte-pair encoding yields at least one token for a non-empty
\* text; it is modelled as one token per code point.
TiktokenTokens(text_) == Len(text_)

\* calculate_tokens_accurate(text, model_name); tk is the tokenizer's behaviour:
\* "unavailable" (import failed), "encodes", or "raises" (falls back).
calculate_tokens_accurate(text_, tk) ==
    IF text_ = << >> THEN 0
    ELSE IF tk = "encodes" THEN TiktokenTokens(text_)
    ELSE HeuristicTokens(text_)

\* ------------------------------------------------------------------ tables
\* CONTEXT_TEMPLATES: "13t" in full; of "1k" its first eight characters.
CONTEXT_TEMPLATES ==
    [ size \in {"13t", "1k"} |->
        IF size = "13t"
        THEN << 35831, 37325, 22797, 36825, 21477, 35805, 65306, 36825, 26159,
                19968, 20010, 27979, 35797 >>
        ELSE << 20154, 24037, 26234, 33021, 26159, 35745, 31639, 26426 >> ]

\* TEST_QUESTIONS, the first two of the eight
TEST_QUESTIONS ==
    << << 35831, 26681, 25454, 19978, 36848, 20869, 23481, 65292, 24635, 32467,
          20027, 35201, 35266, 28857, 12290 >>,
       << 22522, 20110, 25552, 20379, 30340, 20449, 24687, 65292, 20998, 26512,
          20854, 20013, 30340, 20851, 38190, 27010, 24565, 12290 >> >>

NEWLINE == 10

\* ------------------------------------------------------------------ exceptions
\* An exception is [type, msg].  Of the types the model raises, CancelledError
\* alone derives from BaseException and not from Exception.
Exc(type, msg) == [type |-> type, msg |-> msg]

\* `except Exception` (process_stream and make_context_request)
IsException(e) == e.type # "CancelledError"

\* `except asyncio.TimeoutError`
IsTimeoutError(e) == e.type = "TimeoutError"

\* ------------------------------------------------------------------ process_stream
\* A chunk of the stream: choices is 0 (chunk.choices is empty) or 1; content and
\* reasoning_content are texts (<< >> when absent, None or ""); finish_reason is
\* None or Some(reason).
Chunk(choices, content, reasoning_content, finish_reason) ==
    [ choices |-> choices, content |-> content,
      reasoning_content |-> reasoning_content, finish_reason |-> finish_reason ]

\* the locals of process_stream before the loop
StreamLocals ==
    [ first_token_time |-> None, total_content |-> << >>,
      total_reasoning |-> << >>, chunk_count |-> 0 ]

\* a loop that does not look at finish_reason
process_stream_chunk_m(s, chunk, t) ==
    LET counted == [ s EXCEPT !.chunk_count = @ + 1,
                              !.first_token_time = IF @ = None THEN Some(t) ELSE @ ]
    IN  IF chunk.choices = 0
        THEN [ locals |-> counted, next |-> "raise" ]
        ELSE [ locals |-> [ counted EXCEPT
                              !.total_content = @ \o chunk.content,
                              !.total_reasoning = @ \o chunk.reasoning_content ],
               next |-> "continue" ]

\* a loop that takes the time of the first chunk that carries text
process_stream_chunk_text_m(s, chunk, t) ==
    LET has_text == chunk.choices # 0
                    /\ (chunk.content # << >> \/ chunk.reasoning_content # << >>)
        counted == [ s EXCEPT !.chunk_count = @ + 1,
                              !.first_token_time =
                                  IF @ = None /\ has_text THEN Some(t) ELSE @ ]
    IN  IF chunk.choices = 0
        THEN [ locals |-> counted, next |-> "raise" ]
        ELSE [ locals |-> [ counted EXCEPT
                              !.total_content = @ \o chunk.content,
                              !.total_reasoning = @ \o chunk.reasoning_content ],
               next |-> IF chunk.finish_reason # None THEN "break" ELSE "continue" ]

\* one iteration of `async for chunk in stream` on the locals s, the clock
\* reading t; next is "continue", "break" or "raise" (chunk.choices[0] on an
\* empty list)
process_stream_chunk(s, chunk, t) ==
    LET counted == [ s EXCEPT !.chunk_count = @ + 1,
                              !.first_token_time = IF @ = None THEN Some(t) ELSE @ ]
    IN  IF chunk.choices = 0
        THEN [ locals |-> counted, next |-> "raise" ]
        ELSE [ locals |-> [ counted EXCEPT
                              !.total_content = @ \o chunk.content,
                              !.total_reasoning = @ \o chunk.reasoning_content ],
               next |-> IF chunk.finish_reason # None THEN "break" ELSE "continue" ]

\* the value process_stream returns
StreamResult(first_token_time, total_tokens, content_tokens, reasoning_tokens) ==
    [ first_token_time |-> first_token_time, total_tokens |-> total_tokens,
      content_tokens |-> content_tokens, reasoning_tokens |-> reasoning_tokens ]

\* no guard
ZeroTokenGuard_m(chunk_count, total_tokens) == FALSE

\* the zero-token guard: chunk_count > 0 and total_tokens == 0
ZeroTokenGuard(chunk_count, total_tokens) == chunk_count > 0 /\ total_tokens = 0

\* a guard that raises total_tokens alone
process_stream_return_m(s, tk) ==
    LET content_tokens == IF s.total_content # << >>
                          THEN calculate_tokens_accurate(s.total_content, tk) ELSE 0
        reasoning_tokens == IF s.total_reasoning # << >>
                            THEN calculate_tokens_accurate(s.total_reasoning, tk) ELSE 0
        total_tokens == content_tokens + reasoning_tokens
    IN  IF ZeroTokenGuard(s.chunk_count, total_tokens)
        THEN StreamResult(s.first_token_time, 1, content_tokens, reasoning_tokens)
        ELSE StreamResult(s.first_token_time, total_tokens, content_tokens, reasoning_tokens)

\* after the loop: the token counts and the zero-token guard
process_stream_return(s, tk) ==
    LET content_tokens == IF s.total_content # << >>
                          THEN calculate_tokens_accurate(s.total_content, tk) ELSE 0
        reasoning_tokens == IF s.total_reasoning # << >>
                            THEN calculate_tokens_accurate(s.total_reasoning, tk) ELSE 0
        total_tokens == content_tokens + reasoning_tokens
    IN  IF ZeroTokenGuard(s.chunk_count, total_tokens)
        THEN StreamResult(s.first_token_time, 1, 1, reasoning_tokens)
        ELSE StreamResult(s.first_token_time, total_tokens, content_tokens, reasoning_tokens)

\* Returned(v): the call returned v; Raised(e): it raised e
Returned(v) == [ raised |-> FALSE, value |-> v ]
Raised(e) == [ raised |-> TRUE, exc |-> e ]

\* a handler that catches the cancellation too (a bare `except:`)
StreamHandlerCatches_m(e) == TRUE

\* does the handler of process_stream catch e
StreamHandlerCatches(e) == IsException(e)

\* a recovery that asks for accumulated content instead of a first chunk
process_stream_except_m(s, e, tk) ==
    IF ~StreamHandlerCatches(e) THEN Raised(e)
    ELSE IF s.total_content # << >>
    THEN LET estimated_tokens == calculate_tokens_accurate(s.total_content, tk)
         IN  Returned(StreamResult(s.first_token_time, estimated_tokens, estimated_tokens, 0))
    ELSE Raised(e)

\* e is raised inside the try block of process_stream
process_stream_except(s, e, tk) ==
    IF ~StreamHandlerCatches(e) THEN Raised(e)
    ELSE IF s.first_token_time # None
    THEN LET estimated_tokens == IF s.total_content # << >>
                                 THEN calculate_tokens_accurate(s.total_content, tk) ELSE 1
         IN  Returned(StreamResult(s.first_token_time, estimated_tokens, estimated_tokens, 0))
    ELSE Raised(e)

\* asyncio.wait_for(process_stream(...), timeout) when the timeout fires: the
\* consumer is cancelled at its await; TimeoutError unless it returned a value
\* or raised something else
wait_for_timeout(s, tk) ==
    LET ended == process_stream_except(s, Exc("CancelledError", ""), tk)
    IN  IF ended.raised /\ ended.exc.type = "CancelledError"
        THEN Raised(Exc("TimeoutError", ""))
        ELSE ended

\* ------------------------------------------------------------------ make_context_request
\* f"{context_size}-{i+1}"
RequestId(context_size, j) == << context_size, j >>

\* the prompt: the template alone for "13t" (q = 0), else template, blank line
\* and question q
FullPrompt(context_size, q) ==
    IF context_size = "13t" THEN CONTEXT_TEMPLATES[context_size]
    ELSE CONTEXT_TEMPLATES[context_size] \o << NEWLINE, NEWLINE >> \o TEST_QUESTIONS[q]

\* the questions random.choice may draw for a size, out of the set Q
QuestionChoices(context_size, Q) == IF context_size = "13t" THEN {0} ELSE Q

\* a frame before its coroutine has run; stream is the chunks the endpoint's
\* stream has delivered to process_stream so far, in arrival order
NewFrame ==
    [ st |-> "new", fate |-> "none", start_time |-> 0, question |-> 0,
      context_char_count |-> 0, prompt_char_count |-> 0, prompt_tokens_estimate |-> 0,
      stream |-> << >>, locals |-> StreamLocals, result |-> None ]

\* a frame whose coroutine has returned and whose result was taken
Gone == [ NewFrame EXCEPT !.st = "gone" ]

\* the frame at `await client.chat.completions.create(...)`: the statements
\* before the try block, run at the clock reading t with question q
EnterRequest(context_size, q, t, tk) ==
    [ NewFrame EXCEPT
        !.st = "create",
        !.start_time = t,
        !.question = q,
        !.context_char_count = Len(CONTEXT_TEMPLATES[context_size]),
        !.prompt_char_count = Len(FullPrompt(context_size, q)),
        !.prompt_tokens_estimate = calculate_tokens_accurate(FullPrompt(context_size, q), tk) ]

\* a throughput a / b is kept as the fraction [num, den]; 0 is 0 / 1
Ratio(a, b) == [ num |-> a, den |-> b ]

\* throughputs divided without looking at the divisor
SuccessOutcome_m(f, request_id, context_size, sr, t) ==
    LET elapsed_time == t - f.start_time
        ttft == IF sr.first_token_time # None /\ sr.first_token_time[1] # 0
                THEN Some(sr.first_token_time[1] - f.start_time) ELSE None
    IN  [ success |-> TRUE,
          request_id |-> request_id,
          context_size |-> context_size,
          context_char_count |-> f.context_char_count,
          prompt_char_count |-> f.prompt_char_count,
          prompt_tokens_estimate |-> f.prompt_tokens_estimate,
          total_tokens |-> sr.total_tokens,
          content_tokens |-> sr.content_tokens,
          reasoning_tokens |-> sr.reasoning_tokens,
          elapsed_time |-> elapsed_time,
          generation_throughput |-> Ratio(sr.total_tokens, elapsed_time),
          prompt_throughput |->
              IF ttft # None
              THEN Ratio(f.prompt_tokens_estimate, ttft[1]) ELSE Ratio(0, 1),
          ttft |-> ttft,
          question |-> f.question,
          start_time |-> f.start_time,
          end_time |-> t ]

\* the dictionary returned after the stream was processed, end_time being t
SuccessOutcome(f, request_id, context_size, sr, t) ==
    LET elapsed_time == t - f.start_time
        ttft == IF sr.first_token_time # None /\ sr.first_token_time[1] # 0
                THEN Some(sr.first_token_time[1] - f.start_time) ELSE None
    IN  [ success |-> TRUE,
          request_id |-> request_id,
          context_size |-> context_size,
          context_char_count |-> f.context_char_count,
          prompt_char_count |-> f.prompt_char_count,
          prompt_tokens_estimate |-> f.prompt_tokens_estimate,
          total_tokens |-> sr.total_tokens,
          content_tokens |-> sr.content_tokens,
          reasoning_tokens |-> sr.reasoning_tokens,
          elapsed_time |-> elapsed_time,
          generation_throughput |->
              IF elapsed_time > 0 /\ sr.total_tokens > 0
              THEN Ratio(sr.total_tokens, elapsed_time) ELSE Ratio(0, 1),
          prompt_throughput |->
              IF ttft # None /\ ttft[1] # 0 /\ ttft[1] > 0
              THEN Ratio(f.prompt_tokens_estimate, ttft[1]) ELSE Ratio(0, 1),
          ttft |-> ttft,
          question |-> f.question,
          start_time |-> f.start_time,
          end_time |-> t ]

\* the dictionary of `except asyncio.TimeoutError`
TimeoutOutcome(f, request_id, context_size) ==
    [ success |-> FALSE,
      request_id |-> request_id,
      context_size |-> context_size,
      error |-> "timeout",
      context_char_count |-> f.context_char_count,
      prompt_char_count |-> f.prompt_char_count,
      prompt_tokens_estimate |-> f.prompt_tokens_estimate ]

\* a dictionary whose prompt metrics are zeroed
ErrorOutcome_m(f, request_id, context_size, e) ==
    [ success |-> FALSE,
      request_id |-> request_id,
      context_size |-> context_size,
      error |-> e.msg,
      error_type |-> e.type,
      context_char_count |-> f.context_char_count,
      prompt_char_count |-> 0,
      prompt_tokens_estimate |-> 0 ]

\* the dictionary of `except Exception as e`
ErrorOutcome(f, request_id, context_size, e) ==
    [ success |-> FALSE,
      request_id |-> request_id,
      context_size |-> context_size,
      error |-> e.msg,
      error_type |-> e.type,
      context_char_count |-> f.context_char_count,
      prompt_char_count |-> f.prompt_char_count,
      prompt_tokens_estimate |-> f.prompt_tokens_estimate ]

\* without the `except Exception` clause
make_context_request_except_m(f, request_id, context_size, e) ==
    IF IsTimeoutError(e) THEN Returned(TimeoutOutcome(f, request_id, context_size))
    ELSE Raised(e)

\* e is raised inside the try block of make_context_request
make_context_request_except(f, request_id, context_size, e) ==
    IF IsTimeoutError(e) THEN Returned(TimeoutOutcome(f, request_id, context_size))
    ELSE IF IsException(e) THEN Returned(ErrorOutcome(f, request_id, context_size, e))
    ELSE Raised(e)

\* what make_context_request does with `ended`, the way process_stream under
\* wait_for ended, the clock reading t
make_context_request_end(f, request_id, context_size, ended, t) ==
    IF ended.raised
    THEN make_context_request_except(f, request_id, context_size, ended.exc)
    ELSE Returned(SuccessOutcome(f, request_id, context_size, ended.value, t))

\* ------------------------------------------------------------------ run_context_benchmark
N == num_requests_per_size

\* the strings of length at most n over the set S
SeqsUpTo(S, n) == UNION { [1..m -> S] : m \in 0..n }

\* the values time.time() may return now, the clock advancing by a step of T
ReadClock(from, T) == { t \in from..MaxTime : (t - from) \in T }

\* the label of the size request r = <<k, j>> belongs to
SizeOf(r) == context_sizes[r[1]]

\* an entry that keeps the successful outcomes only
Group_m(context_size, results) ==
    [ context_size |-> context_size, concurrency |-> concurrency,
      results |-> SelectSeq(results, LAMBDA o : o.success) ]

\* the entry appended to all_results
Group(context_size, results) ==
    [ context_size |-> context_size, concurrency |-> concurrency, results |-> results ]

\* the state after construction: the arguments drawn from the given sets
InitWith(Sizes, Ns, Cs, Timeouts, Tks) ==
    /\ context_sizes \in Sizes
    /\ num_requests_per_size \in Ns
    /\ concurrency \in Cs
    /\ request_timeout \in Timeouts
    /\ tiktoken \in Tks
    /\ now = 1
    /\ pc = "loop"
    /\ si = 0
    /\ i = 0
    /\ size_results = << >>
    /\ test_failed = FALSE
    /\ all_results = << >>
    /\ semaphore = 0
    /\ waiters = << >>
    /\ req = [ r \in (1..Len(context_sizes)) \X (1..num_requests_per_size) |-> NewFrame ]
    /\ text = << >>
    /\ tokens = None
    /\ summary = None
    /\ random_state = 0

\* the generator after the driver picked its question: random.choice draws
\* from the generator of the module, and only the smallest template needs no
\* question
AfterChoice(context_size, state) ==
    IF context_size = "13t" THEN state ELSE state + 1

\* the run goes on after a failed group
HaltsRun_m(failed) == FALSE

\* `if test_failed: break` after the group is appended
HaltsRun(failed) == failed

\* the sequential loop goes on after a failed result
SeqStops_m(result) == FALSE

\* the sequential loop breaks on a result that is not a success
SeqStops(result) == ~result.success

\* `for context_size in context_sizes`: the next size, or the return
NextSize ==
    /\ pc = "loop"
    /\ IF si < Len(context_sizes)
       THEN /\ si' = si + 1
            /\ size_results' = << >>
            /\ test_failed' = FALSE
            /\ IF concurrency = 1
               THEN /\ pc' = "seq"
                    /\ i' = 0
                    /\ UNCHANGED << semaphore, waiters >>
               ELSE /\ pc' = "gather"
                    /\ semaphore' = concurrency
                    /\ waiters' = << >>
                    /\ UNCHANGED i
       ELSE /\ pc' = "returned"
            /\ UNCHANGED << si, i, size_results, test_failed, semaphore, waiters >>
    /\ UNCHANGED << args, calls, random_state, now, all_results, req >>

\* `for i in range(num_requests_per_size)`: the call of make_context_request,
\* up to its await of the endpoint
SeqIssue(Q, T) ==
    /\ pc = "seq"
    /\ i < N
    /\ \E q \in QuestionChoices(context_sizes[si], Q), t \in ReadClock(now, T) :
          /\ req' = [ req EXCEPT ![<< si, i + 1 >>] =
                          EnterRequest(context_sizes[si], q, t, tiktoken) ]
          /\ now' = t
    /\ random_state' = AfterChoice(context_sizes[si], random_state)
    /\ pc' = "seq_await"
    /\ UNCHANGED << args, calls, si, i, size_results, test_failed, all_results,
                    semaphore, waiters >>

\* the sequential loop ran all its requests: the group is appended
SeqExhausted ==
    /\ pc = "seq"
    /\ i >= N
    /\ all_results' = Append(all_results, Group(context_sizes[si], size_results))
    /\ pc' = IF HaltsRun(test_failed) THEN "returned" ELSE "loop"
    /\ UNCHANGED << args, calls, random_state, now, si, i, size_results, test_failed, semaphore,
                    waiters, req >>

\* does the progress line of a successful result format: '{ttft:.3f}' raises
\* TypeError on None
SeqPrintRaises(result) == result.ttft = None

\* the sequential loop after `await make_context_request(...)`
SeqResult ==
    /\ pc = "seq_await"
    /\ req[<< si, i + 1 >>].st = "done"
    /\ LET ended == req[<< si, i + 1 >>].result[1]
       IN  IF ended.raised
           THEN /\ pc' = "raised"
                /\ UNCHANGED << size_results, test_failed, all_results >>
           ELSE /\ size_results' = Append(size_results, ended.value)
                /\ IF ended.value.success
                   THEN /\ pc' = IF SeqPrintRaises(ended.value) THEN "raised" ELSE "seq_sleep"
                        /\ UNCHANGED << test_failed, all_results >>
                   ELSE /\ test_failed' = TRUE
                        /\ IF SeqStops(ended.value)
                           THEN /\ all_results' = Append(all_results,
                                                   Group(context_sizes[si], size_results'))
                                /\ pc' = IF HaltsRun(TRUE) THEN "returned" ELSE "loop"
                           ELSE /\ pc' = "seq_sleep"
                                /\ UNCHANGED all_results
    /\ req' = [ req EXCEPT ![<< si, i + 1 >>] = Gone ]
    /\ UNCHANGED << args, calls, random_state, now, si, i, semaphore, waiters >>

\* `await asyncio.sleep(1)` returns and the loop variable advances
SeqSleep ==
    /\ pc = "seq_sleep"
    /\ pc' = "seq"
    /\ i' = i + 1
    /\ UNCHANGED << args, calls, random_state, now, si, size_results, test_failed, all_results,
                    semaphore, waiters, req >>

\* gather hands back as soon as a task has failed
BatchDone_m ==
    \/ \A j \in 1..N : req[<< si, j >>].st = "done"
    \/ \E j \in 1..N :
          /\ req[<< si, j >>].st = "done"
          /\ ~req[<< si, j >>].result[1].raised
          /\ ~req[<< si, j >>].result[1].value.success

\* the batch is over when gather has the result of every task
BatchDone == \A j \in 1..N : req[<< si, j >>].st = "done"

\* the tasks of every size are started with the first batch
NextToStart_m(r) ==
    /\ req[r].st = "new"
    /\ \A j \in 1..(r[2] - 1) : req[<< r[1], j >>].st # "new"

\* the tasks of gather start in argument order
NextToStart(r) ==
    /\ r[1] = si
    /\ req[r].st = "new"
    /\ \A j \in 1..(r[2] - 1) : req[<< si, j >>].st # "new"

\* the semaphore admits every caller
SemaphoreFree_m == TRUE

\* `async with semaphore`: may the caller enter without waiting
SemaphoreFree == semaphore > 0

\* a task of gather takes its first step: limited_request enters the semaphore
\* and runs make_context_request up to its await of the endpoint, or blocks
StartTask(r, Q, T) ==
    /\ pc = "gather"
    /\ r \in DOMAIN req
    /\ NextToStart(r)
    /\ IF SemaphoreFree
       THEN /\ semaphore' = semaphore - 1
            /\ \E q \in QuestionChoices(SizeOf(r), Q), t \in ReadClock(now, T) :
                  /\ req' = [ req EXCEPT ![r] = EnterRequest(SizeOf(r), q, t, tiktoken) ]
                  /\ now' = t
            /\ random_state' = AfterChoice(SizeOf(r), random_state)
            /\ UNCHANGED waiters
       ELSE /\ req' = [ req EXCEPT ![r].st = "waiting" ]
            /\ waiters' = Append(waiters, r)
            /\ UNCHANGED << semaphore, now, random_state >>
    /\ UNCHANGED << args, calls, pc, si, i, size_results, test_failed, all_results >>

\* the first waiter of the semaphore is woken by a release and enters
Admit(r, Q, T) ==
    /\ waiters # << >>
    /\ r = Head(waiters)
    /\ SemaphoreFree
    /\ semaphore' = semaphore - 1
    /\ waiters' = Tail(waiters)
    /\ \E q \in QuestionChoices(SizeOf(r), Q), t \in ReadClock(now, T) :
          /\ req' = [ req EXCEPT ![r] = EnterRequest(SizeOf(r), q, t, tiktoken) ]
          /\ now' = t
    /\ random_state' = AfterChoice(SizeOf(r), random_state)
    /\ UNCHANGED << args, calls, pc, si, i, size_results, test_failed, all_results >>

\* a semaphore released only after a successful outcome
Complete_m(r, fate, stream, locals, ended) ==
    /\ req' = [ req EXCEPT ![r].st = "done", ![r].fate = fate, ![r].stream = stream,
                           ![r].locals = locals, ![r].result = Some(ended) ]
    /\ semaphore' = IF concurrency = 1 \/ ended.raised \/ ~ended.value.success
                    THEN semaphore ELSE semaphore + 1

\* make_context_request of r ends the way `ended` says; in a batch the
\* `async with` of limited_request releases the semaphore
Complete(r, fate, stream, locals, ended) ==
    /\ req' = [ req EXCEPT ![r].st = "done", ![r].fate = fate, ![r].stream = stream,
                           ![r].locals = locals, ![r].result = Some(ended) ]
    /\ semaphore' = IF concurrency = 1 THEN semaphore ELSE semaphore + 1

\* the endpoint refuses the request: create(...) raises e
CreateRaises(r, E) ==
    /\ r \in DOMAIN req
    /\ req[r].st = "create"
    /\ \E e \in E :
          Complete(r, "refused", req[r].stream, req[r].locals,
                   make_context_request_except(req[r], RequestId(SizeOf(r), r[2]),
                                               SizeOf(r), e))
    /\ UNCHANGED << args, calls, random_state, now, pc, si, i, size_results, test_failed, all_results, waiters >>

\* create(...) returns the stream; process_stream starts under wait_for and
\* awaits the first chunk
CreateReturns(r) ==
    /\ r \in DOMAIN req
    /\ req[r].st = "create"
    /\ req' = [ req EXCEPT ![r].st = "stream" ]
    /\ UNCHANGED << args, calls, random_state, now, pc, si, i, size_results, test_failed, all_results,
                    semaphore, waiters >>

\* process_stream of r ended the way `ended` says at the clock reading `from`:
\* make_context_request reads end_time when it returned, and ends itself
EndStream(r, fate, stream, locals, ended, from, T) ==
    \E t \in (IF ended.raised THEN {from} ELSE ReadClock(from, T)) :
        /\ Complete(r, fate, stream, locals,
                    make_context_request_end(req[r], RequestId(SizeOf(r), r[2]),
                                             SizeOf(r), ended, t))
        /\ now' = t

\* the stream delivers a chunk, one of at most L: one iteration of the loop of
\* process_stream
RecvChunk(r, C, L, T) ==
    /\ r \in DOMAIN req
    /\ req[r].st = "stream"
    /\ req[r].locals.chunk_count < L
    /\ \E chunk \in C,
          t \in (IF req[r].locals.first_token_time = None
                 THEN ReadClock(now, T) ELSE {now}) :
          LET step == process_stream_chunk(req[r].locals, chunk, t)
              stream == Append(req[r].stream, chunk)
          IN  IF step.next = "continue"
              THEN /\ req' = [ req EXCEPT ![r].stream = stream, ![r].locals = step.locals ]
                   /\ now' = t
                   /\ UNCHANGED semaphore
              ELSE IF step.next = "break"
              THEN EndStream(r, "finished", stream, step.locals,
                             Returned(process_stream_return(step.locals, tiktoken)), t, T)
              ELSE EndStream(r, "malformed", stream, step.locals,
                             process_stream_except(step.locals,
                                 Exc("IndexError", "list index out of range"), tiktoken),
                             t, T)
    /\ UNCHANGED << args, calls, random_state, pc, si, i, size_results, test_failed, all_results, waiters >>

\* the stream closes after a number of chunks in K: the loop of process_stream
\* ends without a break
StreamCloses(r, K, T) ==
    /\ r \in DOMAIN req
    /\ req[r].st = "stream"
    /\ req[r].locals.chunk_count \in K
    /\ EndStream(r, "closed", req[r].stream, req[r].locals,
                 Returned(process_stream_return(req[r].locals, tiktoken)), now, T)
    /\ UNCHANGED << args, calls, random_state, pc, si, i, size_results, test_failed, all_results, waiters >>

\* the stream raises e while process_stream awaits a chunk
StreamRaises(r, E, T) ==
    /\ r \in DOMAIN req
    /\ req[r].st = "stream"
    /\ \E e \in E :
          EndStream(r, "raised", req[r].stream, req[r].locals,
                    process_stream_except(req[r].locals, e, tiktoken), now, T)
    /\ UNCHANGED << args, calls, random_state, pc, si, i, size_results, test_failed, all_results, waiters >>

\* the timeout of wait_for fires while process_stream awaits a chunk
Timeout(r, T) ==
    /\ r \in DOMAIN req
    /\ req[r].st = "stream"
    /\ request_timeout # None
    /\ EndStream(r, "stalled", req[r].stream, req[r].locals,
                 wait_for_timeout(req[r].locals, tiktoken), now, T)
    /\ UNCHANGED << args, calls, random_state, pc, si, i, size_results, test_failed, all_results, waiters >>

\* the entry of size_results for the j-th result of gather: an exception is
\* replaced by a failure dictionary
GatherOutcome(context_size, j, ended) ==
    IF ended.raised
    THEN [ success |-> FALSE,
           request_id |-> RequestId(context_size, j),
           context_size |-> context_size,
           error |-> ended.exc.msg,
           context_char_count |-> Len(CONTEXT_TEMPLATES[context_size]),
           prompt_char_count |-> 0,
           prompt_tokens_estimate |-> 0 ]
    ELSE ended.value

\* results handed back last task first
GatherResults_m ==
    LET frames == [ j \in 1..N |-> req[<< si, N + 1 - j >>] ]
        done == SelectSeq(frames, LAMBDA f : f.st = "done")
    IN  [ j \in 1..Len(done) |-> done[j].result[1] ]

\* the results gather hands back: those of the tasks that are done, in
\* argument order (all of them, gather returning when the batch is done)
GatherResults ==
    LET frames == [ j \in 1..N |-> req[<< si, j >>] ]
        done == SelectSeq(frames, LAMBDA f : f.st = "done")
    IN  [ j \in 1..Len(done) |-> done[j].result[1] ]

\* gather returns: the results are looked at in argument order, the group is
\* appended and the run goes on or halts
GatherDone ==
    /\ pc = "gather"
    /\ BatchDone
    /\ LET results == GatherResults
       IN  IF \E j \in DOMAIN results : results[j].raised /\ ~IsException(results[j].exc)
           THEN \* result["success"] on an exception that is no Exception
                /\ pc' = "raised"
                /\ UNCHANGED << size_results, test_failed, all_results >>
           ELSE LET outcomes == [ j \in DOMAIN results |->
                                    GatherOutcome(context_sizes[si], j, results[j]) ]
                    has_failure == \E j \in DOMAIN outcomes : ~outcomes[j].success
                IN  /\ size_results' = outcomes
                    /\ test_failed' = has_failure
                    /\ all_results' = Append(all_results,
                                             Group(context_sizes[si], outcomes))
                    /\ pc' = IF HaltsRun(has_failure) THEN "returned" ELSE "loop"
    /\ req' = [ r \in DOMAIN req |->
                  IF r[1] = si /\ req[r].st = "done" THEN Gone ELSE req[r] ]
    /\ UNCHANGED << args, calls, random_state, now, si, i, semaphore, waiters >>

\* ------------------------------------------------------------------ analyze_context_results
\* Numbers are fractions [num, den] with den > 0, kept in lowest terms.
RECURSIVE GCD(_, _)
GCD(a, b) == IF b = 0 THEN a ELSE GCD(b, a % b)

Reduce(x) ==
    LET g == GCD(IF x.num < 0 THEN -x.num ELSE x.num, x.den)
    IN  Ratio(x.num \div g, x.den \div g)

Whole(n) == Ratio(n, 1)

RatLe(x, y) == x.num * y.den <= y.num * x.den

RatAdd(x, y) == Reduce(Ratio(x.num * y.den + y.num * x.den, x.den * y.den))

\* x * a / b for whole numbers a and b > 0
RatScale(x, a, b) == Reduce(Ratio(x.num * a, x.den * b))

RECURSIVE RatSum(_)
RatSum(values) ==
    IF values = << >> THEN Whole(0) ELSE RatAdd(values[1], RatSum(Tail(values)))

\* np.mean of a list that is not empty
Mean(values) == RatScale(RatSum(values), 1, Len(values))

RECURSIVE Insert(_, _)
Insert(x, sorted) ==
    IF sorted = << >> THEN << x >>
    ELSE IF RatLe(x, sorted[1]) THEN << x >> \o sorted
    ELSE << sorted[1] >> \o Insert(x, Tail(sorted))

RECURSIVE Sorted(_)
Sorted(values) ==
    IF values = << >> THEN << >> ELSE Insert(values[1], Sorted(Tail(values)))

\* np.percentile(values, q) of a list that is not empty: linear interpolation
\* between the two values of the sorted list around position q (n - 1) / 100
Percentile(values, q) ==
    LET sorted == Sorted(values)
        n == Len(values)
        below == (q * (n - 1)) \div 100
        rest == (q * (n - 1)) % 100
        lower == sorted[below + 1]
        upper == sorted[IF below + 2 <= n THEN below + 2 ELSE n]
    IN  RatAdd(RatScale(lower, 100 - rest, 100), RatScale(upper, rest, 100))

\* np.min and np.max of a list that is not empty
MinOf(values) == Sorted(values)[1]
MaxOf(values) == Sorted(values)[Len(values)]

\* a rate that leaves the failed results out of the total
SuccessRate_m(successful, total) == RatScale(Whole(successful), 100, successful)

\* len(successful_results) / len(results) * 100
SuccessRate(successful, total) == RatScale(Whole(successful), 100, total)

\* a filter that keeps the zero throughputs too
CountsForPromptTps_m(r) == r.prompt_throughput.num >= 0

\* `if r["prompt_throughput"] > 0`
CountsForPromptTps(r) == r.prompt_throughput.num > 0

\* `np.mean(values) if values else None`, and the like
MeanOrNone(values) == IF values # << >> THEN Some(Mean(values)) ELSE None
P95OrNone(values) == IF values # << >> THEN Some(Percentile(values, 95)) ELSE None
MinOrNone(values) == IF values # << >> THEN Some(MinOf(values)) ELSE None
MaxOrNone(values) == IF values # << >> THEN Some(MaxOf(values)) ELSE None

\* the record of a group without a successful result
EmptyRecord(size_group) ==
    LET results == size_group.results
    IN  [ context_size |-> size_group.context_size,
          concurrency |-> size_group.concurrency,
          success_rate |-> Whole(0),
          avg_latency |-> None,
          avg_generation_tps |-> None,
          avg_prompt_tps |-> None,
          avg_ttft |-> None,
          min_ttft |-> None,
          max_ttft |-> None,
          context_chars |-> IF results # << >> THEN results[1].context_char_count ELSE 0,
          prompt_chars |-> IF results # << >> THEN results[1].prompt_char_count ELSE 0,
          prompt_tokens |-> IF results # << >> THEN results[1].prompt_tokens_estimate ELSE 0,
          total_requests |-> Len(results),
          successful_requests |-> 0 ]

\* one iteration of `for size_group in all_results`: the record appended
SummaryRecord(size_group) ==
    LET results == size_group.results
        successful_results == SelectSeq(results, LAMBDA r : r.success)
    IN  IF successful_results = << >> THEN EmptyRecord(size_group)
        ELSE
        LET with_prompt_tps == SelectSeq(successful_results, CountsForPromptTps)
            with_ttft == SelectSeq(successful_results, LAMBDA r : r.ttft # None)
            latencies ==
                [ j \in DOMAIN successful_results |->
                    Whole(successful_results[j].elapsed_time) ]
            generation_tps_values ==
                [ j \in DOMAIN successful_results |->
                    Reduce(successful_results[j].generation_throughput) ]
            prompt_tps_values ==
                [ j \in DOMAIN with_prompt_tps |-> Reduce(with_prompt_tps[j].prompt_throughput) ]
            ttft_values == [ j \in DOMAIN with_ttft |-> Whole(with_ttft[j].ttft[1]) ]
        IN  [ context_size |-> size_group.context_size,
              concurrency |-> size_group.concurrency,
              success_rate |-> SuccessRate(Len(successful_results), Len(results)),
              avg_latency |-> MeanOrNone(latencies),
              p95_latency |-> P95OrNone(latencies),
              avg_generation_tps |-> MeanOrNone(generation_tps_values),
              p95_generation_tps |-> P95OrNone(generation_tps_values),
              avg_prompt_tps |-> MeanOrNone(prompt_tps_values),
              p95_prompt_tps |-> P95OrNone(prompt_tps_values),
              avg_ttft |-> MeanOrNone(ttft_values),
              p95_ttft |-> P95OrNone(ttft_values),
              min_ttft |-> MinOrNone(ttft_values),
              max_ttft |-> MaxOrNone(ttft_values),
              context_chars |-> successful_results[1].context_char_count,
              prompt_chars |-> successful_results[1].prompt_char_count,
              prompt_tokens |-> successful_results[1].prompt_tokens_estimate,
              total_requests |-> Len(results),
              successful_requests |-> Len(successful_results) ]

\* an analyzer that passes over the groups without a success
analyze_context_results_m(groups) ==
    LET kept == SelectSeq(groups, LAMBDA size_group :
                    \E j \in DOMAIN size_group.results : size_group.results[j].success)
    IN  [ k \in DOMAIN kept |-> SummaryRecord(kept[k]) ]

\* analyze_context_results(all_results): a record for each group, in order
analyze_context_results(groups) == [ k \in DOMAIN groups |-> SummaryRecord(groups[k]) ]

\* main, after run_context_benchmark returned: summary = analyze_context_results(all_results)
Analyze ==
    /\ pc = "returned"
    /\ summary = None
    /\ summary' = Some(analyze_context_results(all_results))
    /\ UNCHANGED << args, random_state, now, pc, si, i, size_results, test_failed, all_results,
                    semaphore, waiters, req, text, tokens >>

\* ------------------------------------------------------------------ specifications
Labels == DOMAIN CONTEXT_TEMPLATES

\* the next-state relation: questions Q, clock steps T, chunks C, at most L
\* chunks a stream, streams closing after K chunks, errors E
NextWith(Q, T, C, L, K, E) ==
    \/ NextSize
    \/ SeqIssue(Q, T)
    \/ SeqExhausted
    \/ SeqResult
    \/ SeqSleep
    \/ GatherDone
    \/ \E r \in DOMAIN req : StartTask(r, Q, T)
    \/ \E r \in DOMAIN req : Admit(r, Q, T)
    \/ \E r \in DOMAIN req : CreateRaises(r, E)
    \/ \E r \in DOMAIN req : CreateReturns(r)
    \/ \E r \in DOMAIN req : RecvChunk(r, C, L, T)
    \/ \E r \in DOMAIN req : StreamCloses(r, K, T)
    \/ \E r \in DOMAIN req : StreamRaises(r, E, T)
    \/ \E r \in DOMAIN req : Timeout(r, T)

\* the run of the orchestrator: lists of sizes, batch sizes and concurrency
\* levels within the bounds; streams of one chunk, a clock that stands still
OrchChunks == { Chunk(1, << 72, 105 >>, << >>, None) }
OrchErrors == { Exc("APIConnectionError", "Connection error.") }

\* the lists of sizes of the run: no label twice in a row
OrchSizes ==
    { s \in SeqsUpTo(Labels, MaxSizes) : \A k \in 1..(Len(s) - 1) : s[k] # s[k + 1] }

Init ==
    InitWith(OrchSizes, 0..MaxReq, 1..MaxConc, { Some(30) },
             { "unavailable" })

Next == NextWith({1}, {0}, OrchChunks, 1, {1}, OrchErrors)

Spec == Init /\ [][Next]_vars

\* main: the run of the orchestrator, then the analysis of what it returned
NextMain ==
    \/ Next
    \/ Analyze

SpecMain == Init /\ [][NextMain]_vars

\* one request, run sequentially or as a batch of one: every stream of at
\* most MaxChunks chunks, with or without text, reasoning text and end marker,
\* every tokenizer behaviour, and a clock that advances
ReqContents == { << >>, << 32 >>, << 72, 101 >>, << 20013, 25991, 23383 >> }
ReqReasonings == { << >>, << 24605 >> }
ReqChunks ==
    { Chunk(1, c, rc, fr) : c \in ReqContents, rc \in ReqReasonings,
                            fr \in { None, Some("stop") } }
    \cup { Chunk(0, << >>, << >>, None) }
ReqErrors == { Exc("APIConnectionError", "Connection error."), Exc("TimeoutError", "") }

InitReq ==
    InitWith([1..1 -> Labels], {1}, {1, 2}, { None, Some(30) },
             { "unavailable", "encodes", "raises" })

\* Admit is left out: with one request no task ever waits for the semaphore
NextReq ==
    \/ NextSize
    \/ SeqIssue({1, 2}, {0, 1})
    \/ SeqExhausted
    \/ SeqResult
    \/ SeqSleep
    \/ GatherDone
    \/ \E r \in DOMAIN req : StartTask(r, {1, 2}, {0, 1})
    \/ \E r \in DOMAIN req : CreateRaises(r, ReqErrors)
    \/ \E r \in DOMAIN req : CreateReturns(r)
    \/ \E r \in DOMAIN req : RecvChunk(r, ReqChunks, MaxChunks, {0, 1})
    \/ \E r \in DOMAIN req : StreamCloses(r, 0..MaxChunks, {0, 1})
    \/ \E r \in DOMAIN req : StreamRaises(r, ReqErrors, {0, 1})
    \/ \E r \in DOMAIN req : Timeout(r, {0, 1})

SpecReq == InitReq /\ [][NextReq]_vars

\* one concurrent batch: the size "13t", 2..MaxReq requests, a concurrency of
\* 2..MaxConc, an endpoint that refuses a request or streams one chunk, and a
\* clock that advances while streams end, so that the end_time of an outcome
\* tells when its request completed
InitBatch ==
    InitWith([1..1 -> {"13t"}], 2..MaxReq, 2..MaxConc, { Some(30) }, { "unavailable" })

NextBatch ==
    \/ NextSize
    \/ GatherDone
    \/ \E r \in DOMAIN req : StartTask(r, {1}, {0})
    \/ \E r \in DOMAIN req : Admit(r, {1}, {0})
    \/ \E r \in DOMAIN req : CreateRaises(r, OrchErrors)
    \/ \E r \in DOMAIN req : CreateReturns(r)
    \/ \E r \in DOMAIN req : RecvChunk(r, OrchChunks, 1, {0})
    \/ \E r \in DOMAIN req : StreamCloses(r, {1}, {0, 1})

SpecBatch == InitBatch /\ [][NextBatch]_vars

\* the batch under a fair schedule: the event loop runs every task that is
\* ready (the orchestrator, a task at its first step, the first waiter of a
\* released semaphore), and the endpoint answers every request it was sent
\* and goes on with every stream it opened
BatchRequests == {1} \X (1..MaxReq)

FairBatch ==
    /\ WF_vars(NextSize)
    /\ WF_vars(GatherDone)
    /\ \A r \in BatchRequests :
          /\ WF_vars(StartTask(r, {1}, {0}))
          /\ WF_vars(Admit(r, {1}, {0}))
          /\ WF_vars(CreateRaises(r, OrchErrors) \/ CreateReturns(r))
          /\ WF_vars(RecvChunk(r, OrchChunks, 1, {0}))
          /\ WF_vars(StreamCloses(r, {1}, {0, 1}))

SpecBatchFair == InitBatch /\ [][NextBatch]_vars /\ FairBatch

\* the run of one size under every concurrency level the command line lets
\* through, zero among them, and under a fair schedule: the event loop runs
\* whatever is ready, the endpoint answers every request it was sent and goes
\* on with every stream it opened, and the sleep between two requests ends
InitGate ==
    InitWith([1..1 -> {"13t"}], 0..MaxReq, 0..MaxConc, { Some(30) }, { "unavailable" })

NextGate ==
    \/ NextSize
    \/ SeqIssue({1}, {0})
    \/ SeqExhausted
    \/ SeqResult
    \/ SeqSleep
    \/ GatherDone
    \/ \E r \in DOMAIN req : StartTask(r, {1}, {0})
    \/ \E r \in DOMAIN req : Admit(r, {1}, {0})
    \/ \E r \in DOMAIN req : CreateRaises(r, OrchErrors)
    \/ \E r \in DOMAIN req : CreateReturns(r)
    \/ \E r \in DOMAIN req : RecvChunk(r, OrchChunks, 1, {0})
    \/ \E r \in DOMAIN req : StreamCloses(r, {1}, {0, 1})

FairGate ==
    /\ WF_vars(NextSize)
    /\ WF_vars(SeqIssue({1}, {0}))
    /\ WF_vars(SeqExhausted)
    /\ WF_vars(SeqResult)
    /\ WF_vars(SeqSleep)
    /\ WF_vars(GatherDone)
    /\ \A r \in BatchRequests :
          /\ WF_vars(StartTask(r, {1}, {0}))
          /\ WF_vars(Admit(r, {1}, {0}))
          /\ WF_vars(CreateRaises(r, OrchErrors) \/ CreateReturns(r))
          /\ WF_vars(RecvChunk(r, OrchChunks, 1, {0}))
          /\ WF_vars(StreamCloses(r, {1}, {0, 1}))

SpecGate == InitGate /\ [][NextGate]_vars /\ FairGate

\* the token estimator on its own: a text of at most MaxLen characters, among
\* them the first and the last character of the range counted as Chinese and
\* their neighbours outside it, under every behaviour of the exact tokenizer
EstChars == { 65, CJK_FIRST - 1, CJK_FIRST, CJK_LAST, CJK_LAST + 1 }

\* the variables of the run when no benchmark is running
NoRun ==
    /\ context_sizes = << >>
    /\ num_requests_per_size = 0
    /\ concurrency = 1
    /\ request_timeout = None
    /\ now = 1
    /\ pc = "returned"
    /\ si = 0
    /\ i = 0
    /\ size_results = << >>
    /\ test_failed = FALSE
    /\ semaphore = 0
    /\ waiters = << >>
    /\ req = << >>

InitEst ==
    /\ NoRun
    /\ all_results = << >>
    /\ tiktoken \in { "unavailable", "encodes", "raises" }
    /\ text \in SeqsUpTo(EstChars, MaxLen)
    /\ tokens = None
    /\ summary = None
    /\ random_state = 0

\* the call calculate_tokens_accurate(text) returns
Estimate ==
    /\ tokens = None
    /\ tokens' = Some(calculate_tokens_accurate(text, tiktoken))
    /\ UNCHANGED << args, random_state, now, pc, si, i, size_results, test_failed, all_results,
                    semaphore, waiters, req, text, summary >>

NextEst == Estimate

SpecEst == InitEst /\ [][NextEst]_vars

\* the analyzer on its own, after a run of the size "13t", sequential or with
\* the concurrency MaxConc, that returned: a group of
\* at most MaxGroup outcomes, each built the way make_context_request builds
\* it for a request started at time 1: a success of a stream that closed
\* without a chunk, or whose first chunk came at a time up to AnEnd, ended at
\* a time up to AnEnd, or a timeout, or an error of the endpoint
AnEnd == MaxTime + 1

AnWays ==
    { [ way |-> "success", sr |-> sr, end |-> t ] :
          sr \in { StreamResult(None, 0, 0, 0) }
                  \cup { StreamResult(Some(t1), 3, 3, 0) : t1 \in 1..AnEnd },
          t \in 1..AnEnd }
    \cup { [ way |-> w, sr |-> StreamResult(None, 0, 0, 0), end |-> 1 ] :
              w \in { "timeout", "error" } }

\* the outcome of the j-th request of the size that went the way w
AnOutcome(context_size, j, w) ==
    LET f == EnterRequest(context_size, IF context_size = "13t" THEN 0 ELSE 1, 1, "unavailable")
        request_id == RequestId(context_size, j)
    IN  IF w.way = "success" THEN SuccessOutcome(f, request_id, context_size, w.sr, w.end)
        ELSE IF w.way = "timeout" THEN TimeoutOutcome(f, request_id, context_size)
        ELSE ErrorOutcome(f, request_id, context_size,
                          Exc("APIConnectionError", "Connection error."))

\* can a run of the given concurrency have returned these outcomes: the first
\* chunk of a stream does not come after its end; a sequential run stops at
\* its first failure and does not get past a success without ttft
AnReturned(c, ways) ==
    /\ \A j \in DOMAIN ways :
          ways[j].sr.first_token_time # None => ways[j].sr.first_token_time[1] <= ways[j].end
    /\ c = 1 => \A j \in DOMAIN ways :
                    /\ ways[j].way # "success" => j = Len(ways)
                    /\ ways[j].way = "success" => ways[j].sr.first_token_time # None

\* the state after a run of one size that returned a group made in one of
\* the given ways, the clock reading `end`
InitAnWith(Cs, Ways, end) ==
    \E context_size \in {"13t"}, c \in Cs, ways \in Ways :
        LET results == [ j \in DOMAIN ways |-> AnOutcome(context_size, j, ways[j]) ]
        IN  /\ AnReturned(c, ways)
            /\ context_sizes = << context_size >>
            /\ num_requests_per_size = Len(ways)
            /\ concurrency = c
            /\ request_timeout = Some(30)
            /\ tiktoken = "unavailable"
            /\ now = end
            /\ pc = "returned"
            /\ si = 1
            /\ i = 0
            /\ size_results = results
            /\ test_failed = \E j \in DOMAIN results : ~results[j].success
            /\ all_results = << Group(context_size, results) >>
            /\ semaphore = IF c = 1 THEN 0 ELSE c
            /\ waiters = << >>
            /\ req = [ r \in {1} \X DOMAIN ways |-> Gone ]
            /\ text = << >>
            /\ tokens = None
            /\ summary = None
            /\ random_state = 0

InitAn == InitAnWith({1, MaxConc}, SeqsUpTo(AnWays, MaxGroup), AnEnd)

NextAn == Analyze

SpecAn == InitAn /\ [][NextAn]_vars

\* the analyzer on latencies: a concurrent run whose group holds at most
\* MaxGroup + 2 outcomes, each a timeout or a success that took 1, 2, ... or
\* MaxGroup + 1 seconds
LatencyEnd == MaxGroup + 2

LatencyWays ==
    { [ way |-> "success", sr |-> StreamResult(Some(1), 3, 3, 0), end |-> t ] :
          t \in 2..LatencyEnd }
    \cup { [ way |-> "timeout", sr |-> StreamResult(None, 0, 0, 0), end |-> 1 ] }

InitLatency == InitAnWith({MaxConc}, SeqsUpTo(LatencyWays, MaxGroup + 2), LatencyEnd)

NextLatency == Analyze

SpecLatency == InitLatency /\ [][NextLatency]_vars

\* the stream consumer: one sequential request whose stream delivers up to
\* MaxChunks chunks of text and the chunk that ends it
HE == << 72, 101 >>
LLO == << 108, 108, 111 >>
StreamChunks ==
    { Chunk(1, HE, << >>, None),
      Chunk(1, LLO, << >>, None),
      Chunk(1, LLO, << >>, Some("stop")),
      Chunk(1, << >>, << 24605 >>, None),
      Chunk(1, << >>, << >>, Some("stop")) }

InitStream ==
    InitWith([1..1 -> {"13t"}], {1}, {1}, { None }, { "unavailable", "encodes" })

NextStream ==
    \/ NextSize
    \/ SeqIssue({1}, {0, 1})
    \/ SeqExhausted
    \/ SeqResult
    \/ SeqSleep
    \/ \E r \in DOMAIN req : CreateReturns(r)
    \/ \E r \in DOMAIN req : RecvChunk(r, StreamChunks, MaxChunks + 1, {0, 1})
    \/ \E r \in DOMAIN req : StreamCloses(r, 0..(MaxChunks + 1), {0, 1})
    \/ \E r \in DOMAIN req : StreamRaises(r, OrchErrors, {0, 1})

SpecStream == InitStream /\ [][NextStream]_vars

\* ------------------------------------------------------------------ properties
\* r has been submitted to the endpoint and has not produced its outcome
InFlight(r) == req[r].st \in { "create", "stream" }

\* make_context_request of r has been entered
Issued(r) == req[r].st \in { "create", "stream", "done", "gone" }

\* the group g holds a failed outcome
HasFailure(g) == \E j \in DOMAIN g.results : ~g.results[j].success

\* C1 (halt on failure): the groups returned are labelled, in order, with the
\* prefix of context_sizes that ends at the first group holding a failed outcome
\* (all of context_sizes when no group holds one); once a group holds a failure
\* no request of a later size is ever issued; and with 3 sizes and 2 requests
\* per size, a run whose second request of the first size fails after the first
\* succeeded returns exactly one group, of those two outcomes.
C1_HaltOnFailure ==
    /\ \A k \in 1..Len(all_results) :
          HasFailure(all_results[k]) =>
              \A r \in DOMAIN req : r[1] > k => req[r].st = "new"
    /\ pc = "returned" =>
          LET n == Len(all_results)
          IN  /\ n <= Len(context_sizes)
              /\ \A k \in 1..n : all_results[k].context_size = context_sizes[k]
              /\ \A k \in 1..(n - 1) : ~HasFailure(all_results[k])
              /\ n < Len(context_sizes) => (n >= 1 /\ HasFailure(all_results[n]))
    /\ ( /\ pc = "returned"
         /\ Len(context_sizes) = 3
         /\ N = 2
         /\ Len(all_results[1].results) >= 2
         /\ all_results[1].results[1].success
         /\ ~all_results[1].results[2].success )
       => ( /\ Len(all_results) = 1
            /\ Len(all_results[1].results) = 2 )

C1_Witness ==
    /\ pc = "returned"
    /\ Len(context_sizes) = 3
    /\ N = 2
    /\ Len(all_results) = 1
    /\ Len(all_results[1].results) = 2
    /\ all_results[1].results[1].success
    /\ ~all_results[1].results[2].success

\* C2 (admission cap): at every moment at most `concurrency` requests have been
\* submitted to the endpoint without having produced their outcome.
C2_AdmissionCap ==
    Cardinality({ r \in DOMAIN req : InFlight(r) }) <= concurrency

C2_Witness ==
    /\ concurrency = 2
    /\ N = 3
    /\ Cardinality({ r \in DOMAIN req : InFlight(r) }) = 2
    /\ \E r \in DOMAIN req : req[r].st = "waiting"

\* a sequence of outcomes made of successes followed by at most one failure
FailureOnlyLast(results) ==
    \A j \in DOMAIN results : ~results[j].success => j = Len(results)

\* C3 (sequential mode): with concurrency = 1 the requests of a size are issued
\* one at a time in index order, each after the outcome of the one before was
\* taken; no request of the size is issued after a failed outcome; so a group is
\* successes followed by at most one failure, which is its last outcome.
C3_Sequential ==
    concurrency = 1 =>
        /\ \A r \in DOMAIN req :
              InFlight(r) \/ req[r].st = "done" => (r = << si, i + 1 >> /\ pc = "seq_await")
        /\ \A r \in DOMAIN req :
              Issued(r) => \A j \in 1..(r[2] - 1) : req[<< r[1], j >>].st = "gone"
        /\ si >= 1 /\ pc \in { "seq", "seq_await", "seq_sleep" } =>
              /\ \A j \in DOMAIN size_results :
                    /\ size_results[j].success
                    /\ size_results[j].request_id = RequestId(context_sizes[si], j)
              /\ Len(size_results) \in { i, i + 1 }
        /\ \A k \in 1..Len(all_results) :
              /\ FailureOnlyLast(all_results[k].results)
              /\ \A j \in 1..N :
                    j > Len(all_results[k].results) => req[<< k, j >>].st = "new"

C3_Witness ==
    /\ concurrency = 1
    /\ N = 3
    /\ pc = "returned"
    /\ Len(all_results) = 1
    /\ Len(all_results[1].results) = 2
    /\ all_results[1].results[1].success
    /\ ~all_results[1].results[2].success
    /\ req[<< 1, 3 >>].st = "new"

\* C4 (concurrent mode): with concurrency > 1 every group holds exactly
\* num_requests_per_size outcomes, the j-th carrying the request id of position
\* j, whatever failed; a group is appended only when every request of its batch
\* has produced its outcome; an attempt that raised is replaced by a failure
\* outcome with the request id of its position; and the run halts after a group
\* if and only if the group holds a failure.
C4_Concurrent ==
    /\ concurrency > 1 =>
          /\ \A k \in 1..Len(all_results) :
                /\ Len(all_results[k].results) = N
                /\ \A j \in 1..N :
                      /\ all_results[k].results[j].request_id
                            = RequestId(context_sizes[k], j)
                      /\ req[<< k, j >>].st = "gone"
                /\ HasFailure(all_results[k]) => (k = Len(all_results) /\ pc = "returned")
          /\ ( /\ pc = "returned"
               /\ \A k \in 1..Len(all_results) : ~HasFailure(all_results[k]) )
             => Len(all_results) = Len(context_sizes)
    /\ \A context_size \in Labels, j \in 1..MaxReq, e \in OrchErrors :
          LET replaced == GatherOutcome(context_size, j, Raised(e))
          IN  /\ ~replaced.success
              /\ replaced.request_id = RequestId(context_size, j)

C4_Witness ==
    /\ concurrency = 2
    /\ N = 3
    /\ pc = "returned"
    /\ Len(all_results) = 1
    /\ Len(all_results[1].results) = 3
    /\ ~all_results[1].results[1].success
    /\ all_results[1].results[2].success
    /\ all_results[1].results[3].success

\* C5 (cross-group ordering): in both modes a request is in flight, waiting or
\* holding an untaken outcome only for the size being run; a request of a size
\* is issued only when every group before it has been appended and every
\* request issued for an earlier size has produced its outcome; so requests of
\* two sizes are never in flight together.
C5_CrossGroupOrder ==
    /\ \A r \in DOMAIN req :
          req[r].st \in { "waiting", "create", "stream", "done" } =>
              (r[1] = si /\ pc \in { "seq_await", "gather" })
    /\ \A r \in DOMAIN req :
          Issued(r) =>
              \A k \in 1..(r[1] - 1) :
                  /\ Len(all_results) >= k
                  /\ \A j \in 1..N : req[<< k, j >>].st \in { "new", "gone" }
    /\ \A r1, r2 \in DOMAIN req : InFlight(r1) /\ InFlight(r2) => r1[1] = r2[1]

C5_Witness ==
    /\ N = 2
    /\ si = 2
    /\ Len(all_results) = 1
    /\ InFlight(<< 2, 1 >>)
    /\ InFlight(<< 2, 2 >>)
    /\ req[<< 1, 1 >>].st = "gone"
    /\ req[<< 1, 2 >>].st = "gone"

\* the requests whose make_context_request has ended and whose result has not
\* been taken yet
Ended == { r \in DOMAIN req : req[r].st = "done" }

\* the way make_context_request of r ended, and the dictionary it returned
EndOf(r) == req[r].result[1]
OutcomeOf(r) == req[r].result[1].value

\* C6 (the request driver never raises): whatever the endpoint does --
\* refuses the request, raises before any chunk, stalls past the timeout or
\* ends the stream -- make_context_request returns a dictionary; on the first
\* three it is one with success = false.
C6_NeverRaises ==
    \A r \in Ended :
        /\ ~EndOf(r).raised
        /\ OutcomeOf(r).success \in BOOLEAN
        /\ ( \/ req[r].fate \in { "refused", "stalled" }
             \/ (req[r].fate = "raised" /\ req[r].locals.chunk_count = 0) )
           => ~OutcomeOf(r).success
        /\ req[r].fate \in { "closed", "finished" } => OutcomeOf(r).success

C6_Witness ==
    \E r \in Ended :
        /\ req[r].fate = "raised"
        /\ req[r].locals.chunk_count = 0
        /\ ~EndOf(r).raised
        /\ ~OutcomeOf(r).success

\* C7 (timeout while the stream is consumed): when the timeout of wait_for
\* fires, with or without chunks received, the outcome is a failure whose
\* error is "timeout" and which carries no token count: the text accumulated
\* is not salvaged.
C7_TimeoutFails ==
    \A r \in Ended :
        req[r].fate = "stalled" =>
            /\ ~EndOf(r).raised
            /\ ~OutcomeOf(r).success
            /\ OutcomeOf(r).error = "timeout"
            /\ DOMAIN OutcomeOf(r) \cap { "total_tokens", "content_tokens", "ttft" } = { }

C7_Witness ==
    \E r \in Ended :
        /\ req[r].fate = "stalled"
        /\ req[r].locals.chunk_count > 0
        /\ req[r].locals.total_content # << >>
        /\ ~OutcomeOf(r).success
        /\ OutcomeOf(r).error = "timeout"

\* the stream of r raised an error: on its own, or by a chunk without choices
StreamFailed(r) == req[r].fate \in { "raised", "malformed" }

\* C8 (partial-stream recovery): when the stream raises after a chunk was
\* observed, the outcome is a success whose ttft is that of the recorded first
\* chunk, with total_tokens = content_tokens = the token count of the content
\* accumulated (1 when there is none), reasoning_tokens = 0 and total_tokens
\* >= 1; when it raises before any chunk, the outcome is a failure.
C8_PartialRecovery ==
    \A r \in Ended :
        StreamFailed(r) =>
            /\ ~EndOf(r).raised
            /\ IF req[r].locals.chunk_count >= 1
               THEN /\ OutcomeOf(r).success
                    /\ req[r].locals.first_token_time # None
                    /\ OutcomeOf(r).ttft
                          = Some(req[r].locals.first_token_time[1] - req[r].start_time)
                    /\ OutcomeOf(r).total_tokens
                          = IF req[r].locals.total_content = << >> THEN 1
                            ELSE calculate_tokens_accurate(req[r].locals.total_content,
                                                           tiktoken)
                    /\ OutcomeOf(r).content_tokens = OutcomeOf(r).total_tokens
                    /\ OutcomeOf(r).reasoning_tokens = 0
                    /\ OutcomeOf(r).total_tokens >= 1
               ELSE ~OutcomeOf(r).success

C8_Witness ==
    \E r \in Ended :
        /\ req[r].fate = "raised"
        /\ req[r].locals.chunk_count = 2
        /\ req[r].locals.total_content = << >>
        /\ req[r].locals.total_reasoning # << >>
        /\ OutcomeOf(r).success
        /\ OutcomeOf(r).total_tokens = 1
        /\ OutcomeOf(r).reasoning_tokens = 0

\* C9 (no zero-token success): every outcome with success = true has
\* total_tokens >= 1, whatever stream the endpoint delivers.
C9_NoZeroTokenSuccess ==
    \A r \in Ended :
        (~EndOf(r).raised /\ OutcomeOf(r).success) => OutcomeOf(r).total_tokens >= 1

\* the token counts of the text accumulated by r, before the guard
CountedTokens(r) ==
    calculate_tokens_accurate(req[r].locals.total_content, tiktoken)
    + calculate_tokens_accurate(req[r].locals.total_reasoning, tiktoken)

RECURSIVE ContentOf(_)
ContentOf(stream) ==
    IF stream = << >> THEN << >>
    ELSE ContentOf(SubSeq(stream, 1, Len(stream) - 1)) \o stream[Len(stream)].content

RECURSIVE ReasoningOf(_)
ReasoningOf(stream) ==
    IF stream = << >> THEN << >>
    ELSE ReasoningOf(SubSeq(stream, 1, Len(stream) - 1))
         \o stream[Len(stream)].reasoning_content

\* the chunks of a stream that carry a completion marker
Markers(stream) == { p \in DOMAIN stream : stream[p].finish_reason # None }

\* C11 (stop at the completion marker): the buffers of process_stream hold the
\* content and the reasoning text of the chunks delivered, concatenated in
\* arrival order, and chunk_count counts them; only the last chunk delivered
\* may carry a completion marker, and when it does the consumer has returned,
\* so no chunk after the first marker is consumed or counted; a stream that
\* closed carried no marker and was consumed whole; and the chunks "He", "llo",
\* <end> give content_tokens = the estimate of "Hello" and reasoning_tokens = 0.
C11_StopsAtMarker ==
    \A r \in DOMAIN req :
        req[r].st \in { "stream", "done" } =>
            LET stream == req[r].stream
            IN  /\ req[r].locals.chunk_count = Len(stream)
                /\ req[r].locals.total_content = ContentOf(stream)
                /\ req[r].locals.total_reasoning = ReasoningOf(stream)
                /\ Markers(stream) \subseteq { Len(stream) }
                /\ Markers(stream) # { } <=> req[r].fate = "finished"
                /\ req[r].fate = "finished" =>
                      (req[r].st = "done" /\ OutcomeOf(r).success)
                /\ ( /\ req[r].st = "done"
                     /\ stream = << Chunk(1, HE, << >>, None), Chunk(1, LLO, << >>, None),
                                    Chunk(1, << >>, << >>, Some("stop")) >> )
                   => /\ OutcomeOf(r).content_tokens
                            = calculate_tokens_accurate(HE \o LLO, tiktoken)
                      /\ OutcomeOf(r).reasoning_tokens = 0

C11_Witness ==
    \E r \in Ended :
        /\ req[r].stream = << Chunk(1, HE, << >>, None), Chunk(1, LLO, << >>, None),
                              Chunk(1, << >>, << >>, Some("stop")) >>
        /\ req[r].locals.total_content = << 72, 101, 108, 108, 111 >>
        /\ req[r].fate = "finished"
        /\ OutcomeOf(r).content_tokens = calculate_tokens_accurate(HE \o LLO, tiktoken)
        /\ OutcomeOf(r).reasoning_tokens = 0

\* the requests whose process_stream returned a value: make_context_request
\* built a successful outcome from it
Counted == { r \in Ended : ~EndOf(r).raised /\ OutcomeOf(r).success }

\* the estimator's counts of the two buffers of r
ContentCount(r) == calculate_tokens_accurate(req[r].locals.total_content, tiktoken)
ReasoningCount(r) == calculate_tokens_accurate(req[r].locals.total_reasoning, tiktoken)

\* C12 as stated (token accounting): on every return path of process_stream
\* total_tokens = content_tokens + reasoning_tokens, content_tokens being the
\* estimator's count of the content buffer and reasoning_tokens that of the
\* reasoning buffer.
C12_CountsAreEstimates ==
    \A r \in Counted :
        /\ OutcomeOf(r).total_tokens
              = OutcomeOf(r).content_tokens + OutcomeOf(r).reasoning_tokens
        /\ OutcomeOf(r).content_tokens = ContentCount(r)
        /\ OutcomeOf(r).reasoning_tokens = ReasoningCount(r)

\* C12 amended (token accounting): on every return path total_tokens =
\* content_tokens + reasoning_tokens; after the loop the two counts are the
\* estimator's counts of the two buffers unless the zero-token guard fires,
\* which sets content_tokens to 1 over an empty content buffer; on the recovery
\* path content_tokens is the estimator's count of the content buffer, or 1
\* when it is empty, and reasoning_tokens is 0 whatever the reasoning buffer
\* holds.
C12_TokenAccounting ==
    \A r \in Counted :
        /\ OutcomeOf(r).total_tokens
              = OutcomeOf(r).content_tokens + OutcomeOf(r).reasoning_tokens
        /\ req[r].fate \in { "closed", "finished" } =>
              IF req[r].locals.chunk_count > 0 /\ ContentCount(r) + ReasoningCount(r) = 0
              THEN /\ OutcomeOf(r).content_tokens = 1
                   /\ OutcomeOf(r).reasoning_tokens = 0
                   /\ req[r].locals.total_content = << >>
              ELSE /\ OutcomeOf(r).content_tokens = ContentCount(r)
                   /\ OutcomeOf(r).reasoning_tokens = ReasoningCount(r)
        /\ StreamFailed(r) =>
              /\ OutcomeOf(r).content_tokens = Max(1, ContentCount(r))
              /\ OutcomeOf(r).reasoning_tokens = 0

C12_Witness ==
    \E r1 \in Counted :
        /\ req[r1].fate = "raised"
        /\ req[r1].locals.total_content # << >>
        /\ ReasoningCount(r1) >= 1
        /\ OutcomeOf(r1).reasoning_tokens = 0
        /\ OutcomeOf(r1).content_tokens = ContentCount(r1)
        /\ OutcomeOf(r1).total_tokens = OutcomeOf(r1).content_tokens

\* gather returns in this step
GatherReturns == pc = "gather" /\ pc' \in { "loop", "returned" }

\* the outcome the j-th launched request of the batch produced
ProducedBy(j) ==
    IF EndOf(<< si, j >>).raised
    THEN GatherOutcome(context_sizes[si], j, EndOf(<< si, j >>))
    ELSE OutcomeOf(<< si, j >>)

\* C13 (launch-order collection): the tasks of a batch are launched in index
\* order; when gather returns, the group appended holds num_requests_per_size
\* outcomes, the j-th being the outcome the j-th launched request produced and
\* carrying its request id, in whatever order the requests completed.
C13_LaunchOrder ==
    /\ [](\A r \in DOMAIN req :
              req[r].st # "new" => \A j \in 1..(r[2] - 1) : req[<< r[1], j >>].st # "new")
    /\ [][GatherReturns =>
             LET group == all_results'[Len(all_results')]
             IN  /\ Len(all_results') = Len(all_results) + 1
                 /\ Len(group.results) = N
                 /\ \A j \in 1..N :
                       /\ group.results[j] = ProducedBy(j)
                       /\ group.results[j].request_id = RequestId(context_sizes[si], j)]_vars

\* the first request of the batch completed after the second and after the
\* third, and the group lists them first, second, third
C13_Witness ==
    /\ pc = "returned"
    /\ N = 3
    /\ Len(all_results) = 1
    /\ LET results == all_results[1].results
       IN  /\ Len(results) = 3
           /\ \A j \in 1..3 :
                 results[j].success /\ results[j].request_id = RequestId(context_sizes[1], j)
           /\ results[1].end_time > results[2].end_time
           /\ results[1].end_time > results[3].end_time

\* the outcomes collected so far for the k-th size: its group once appended,
\* size_results while the size is being run
Collected(k) ==
    IF k <= Len(all_results) THEN all_results[k].results
    ELSE IF k = si THEN size_results
    ELSE << >>

\* C14 (outcome conservation): the groups are labelled, in order, with the
\* sizes requested; the outcome at position j of the k-th group is that of the
\* j-th request issued for the k-th size and carries the label of the group;
\* a request whose outcome was taken has it, once, among the outcomes of its
\* size; and when the run returns the outcomes returned are, one for one, the
\* requests that were issued.
C14_Conservation ==
    /\ Len(all_results) <= Len(context_sizes)
    /\ \A k \in 1..Len(all_results) :
          /\ all_results[k].context_size = context_sizes[k]
          /\ \A j \in DOMAIN all_results[k].results :
                /\ << k, j >> \in DOMAIN req
                /\ req[<< k, j >>].st = "gone"
                /\ all_results[k].results[j].request_id = RequestId(context_sizes[k], j)
                /\ all_results[k].results[j].context_size = all_results[k].context_size
    /\ \A r \in DOMAIN req :
          req[r].st = "gone" =>
              /\ r[2] \in DOMAIN Collected(r[1])
              /\ Cardinality({ j \in DOMAIN Collected(r[1]) :
                     Collected(r[1])[j].request_id = RequestId(SizeOf(r), r[2]) }) = 1
    /\ pc = "returned" =>
          /\ \A r \in DOMAIN req : req[r].st \in { "new", "gone" }
          /\ \A r \in DOMAIN req :
                Issued(r) <=> ( /\ r[1] <= Len(all_results)
                                /\ r[2] <= Len(all_results[r[1]].results) )

C14_Witness ==
    /\ pc = "returned"
    /\ context_sizes = << "13t", "1k", "13t" >>
    /\ N = 2
    /\ Len(all_results) = 3
    /\ \A r \in DOMAIN req : req[r].st = "gone"
    /\ \A k \in 1..3 : Len(all_results[k].results) = 2
    /\ ~all_results[3].results[2].success

\* make_context_request of r ends in this step
Finishes(r) == InFlight(r) /\ req'[r].st = "done"

\* C15 (admission gate liveness): in a batch with concurrency >= 2 whose
\* admitted requests all end, every request of the batch is eventually
\* admitted and gather eventually returns; and the step in which a request
\* ends, with a success or with a failure, frees one slot of the semaphore.
C15_AdmissionLiveness ==
    /\ \A r \in BatchRequests :
          (r \in DOMAIN req /\ pc = "gather") ~> (r \in DOMAIN req /\ Issued(r))
    /\ (pc = "gather") ~> (pc \in { "loop", "returned" })
    /\ [][\A r \in DOMAIN req : Finishes(r) => semaphore' = semaphore + 1]_vars

\* a request is queued while a slot freed by a failed request is available
C15_Witness ==
    /\ concurrency = 2
    /\ N = 3
    /\ req[<< 1, 3 >>].st = "waiting"
    /\ req[<< 1, 1 >>].st = "done"
    /\ ~OutcomeOf(<< 1, 1 >>).success
    /\ InFlight(<< 1, 2 >>)
    /\ semaphore = 1

\* the requests whose make_context_request returned a failure
Failed == { r \in Ended : ~EndOf(r).raised /\ ~OutcomeOf(r).success }

\* the keys of a failure outcome, and the keys only a success carries
FailureKeys ==
    { "success", "request_id", "context_size", "error", "context_char_count",
      "prompt_char_count", "prompt_tokens_estimate" }
MeasureKeys ==
    { "elapsed_time", "ttft", "total_tokens", "content_tokens", "reasoning_tokens",
      "generation_throughput", "prompt_throughput", "start_time", "end_time" }

\* the successful outcome r would have returned for the same prompt
SuccessFor(r) ==
    SuccessOutcome(req[r], RequestId(SizeOf(r), r[2]), SizeOf(r),
                   StreamResult(None, 0, 0, 0), now)

\* C16 (shape of failure outcomes): a failure returned by make_context_request
\* has success = false, the request id, the size label, an error, and the
\* prompt character count and prompt token estimate of the prompt that was
\* built before the request was issued, the values a success for that prompt
\* carries; its error is "timeout" when the consumption of the stream timed
\* out, and otherwise the message of the error the endpoint raised, with its
\* class name (an error of the endpoint that is itself a TimeoutError is
\* reported as "timeout" too); it has no elapsed time, ttft, token count,
\* throughput, start or end time.
C16_FailureShape ==
    \A r \in Failed :
        LET outcome == OutcomeOf(r)
            prompt == FullPrompt(SizeOf(r), req[r].question)
        IN  /\ FailureKeys \subseteq DOMAIN outcome
            /\ DOMAIN outcome \cap MeasureKeys = { }
            /\ outcome.request_id = RequestId(SizeOf(r), r[2])
            /\ outcome.context_size = SizeOf(r)
            /\ outcome.prompt_char_count = Len(prompt)
            /\ outcome.prompt_tokens_estimate = calculate_tokens_accurate(prompt, tiktoken)
            /\ outcome.prompt_char_count = SuccessFor(r).prompt_char_count
            /\ outcome.prompt_tokens_estimate = SuccessFor(r).prompt_tokens_estimate
            /\ outcome.context_char_count = SuccessFor(r).context_char_count
            /\ req[r].fate = "stalled" => outcome.error = "timeout"
            /\ req[r].fate # "stalled" =>
                  /\ req[r].fate \in { "refused", "raised" }
                  /\ \E e \in ReqErrors :
                        IF IsTimeoutError(e)
                        THEN outcome.error = "timeout"
                        ELSE /\ outcome.error = e.msg
                             /\ "error_type" \in DOMAIN outcome
                             /\ outcome.error_type = e.type

C16_Witness ==
    \E r \in Failed :
        /\ SizeOf(r) = "1k"
        /\ req[r].question = 2
        /\ req[r].fate = "refused"
        /\ OutcomeOf(r).error = "Connection error."
        /\ OutcomeOf(r).prompt_char_count = Len(FullPrompt("1k", 2))
        /\ OutcomeOf(r).prompt_tokens_estimate >= 1
        /\ "elapsed_time" \notin DOMAIN OutcomeOf(r)

\* the fraction x is a number (its divisor is not zero) and equals a / b
IsQuotient(x, a, b) == x.den # 0 /\ b # 0 /\ x.num * b = a * x.den

\* the fraction x is the number zero
IsZero(x) == x.den # 0 /\ x.num = 0

\* C17 (metrics of a success): elapsed_time = end_time - start_time; ttft is
\* null exactly when no chunk was observed and otherwise first_token_time -
\* start_time; generation_throughput is total_tokens / elapsed_time, and 0 when
\* elapsed_time <= 0 or total_tokens = 0; prompt_throughput is
\* prompt_tokens_estimate / ttft, and 0 when ttft is null or <= 0; no
\* throughput is a division by zero.
C17_SuccessMetrics ==
    \A r \in Counted :
        LET outcome == OutcomeOf(r)
            s == req[r].locals
        IN  /\ outcome.start_time = req[r].start_time
            /\ outcome.end_time >= outcome.start_time
            /\ outcome.elapsed_time = outcome.end_time - outcome.start_time
            /\ outcome.ttft = None <=> s.chunk_count = 0
            /\ s.chunk_count > 0 =>
                  outcome.ttft = Some(s.first_token_time[1] - outcome.start_time)
            /\ IF outcome.elapsed_time <= 0 \/ outcome.total_tokens = 0
               THEN IsZero(outcome.generation_throughput)
               ELSE IsQuotient(outcome.generation_throughput,
                               outcome.total_tokens, outcome.elapsed_time)
            /\ IF outcome.ttft = None \/ outcome.ttft[1] <= 0
               THEN IsZero(outcome.prompt_throughput)
               ELSE IsQuotient(outcome.prompt_throughput,
                               outcome.prompt_tokens_estimate, outcome.ttft[1])

C17_Witness ==
    \E r \in Counted :
        /\ SizeOf(r) = "13t"
        /\ tiktoken = "unavailable"
        /\ OutcomeOf(r).start_time = 1
        /\ OutcomeOf(r).end_time = 2
        /\ OutcomeOf(r).elapsed_time = 1
        /\ OutcomeOf(r).ttft = Some(1)
        /\ OutcomeOf(r).total_tokens = 2
        /\ OutcomeOf(r).generation_throughput = Ratio(2, 1)
        /\ OutcomeOf(r).prompt_throughput = Ratio(OutcomeOf(r).prompt_tokens_estimate, 1)
        /\ OutcomeOf(r).prompt_tokens_estimate >= 1

\* C18 (the heuristic estimate): when the exact tokenizer is unavailable or
\* raises, the estimate of the empty text is 0, and the estimate of a text
\* with c characters in U+4E00..U+9FFF and o others is max(1, k), k being the
\* whole number with k <= c / 1.5 + o / 4 < k + 1, that is 12 k <= 8 c + 3 o <
\* 12 (k + 1); so it is at least 1 for every text that is not empty.
C18_HeuristicEstimate ==
    (tokens # None /\ tiktoken # "encodes") =>
        LET c == Cardinality({ p \in DOMAIN text : text[p] \in 19968..40959 })
            o == Len(text) - c
        IN  IF text = << >> THEN tokens = Some(0)
            ELSE /\ tokens[1] >= 1
                 /\ \E k \in 0..Len(text) :
                       /\ 12 * k <= 8 * c + 3 * o
                       /\ 8 * c + 3 * o < 12 * (k + 1)
                       /\ tokens[1] = IF k >= 1 THEN k ELSE 1

C18_Witness ==
    /\ tiktoken = "raises"
    /\ text = << 19968, 40959, 19968, 19967 >>
    /\ tokens = Some(2)

\* the groups the analyzer was given that hold no successful outcome, and
\* those that hold one
Analyzed == IF summary = None THEN { } ELSE DOMAIN all_results
NoSuccess == { k \in Analyzed : \A j \in DOMAIN all_results[k].results :
                                   ~all_results[k].results[j].success }
SomeSuccess == Analyzed \ NoSuccess

\* the statistics of a summary record
StatKeys ==
    { "avg_latency", "p95_latency", "avg_generation_tps", "p95_generation_tps",
      "avg_prompt_tps", "p95_prompt_tps", "avg_ttft", "p95_ttft", "min_ttft", "max_ttft" }

\* C19 (a group without a success): the analyzer returns, and the record of a
\* group whose outcomes all failed, or that holds no outcome, has success_rate
\* 0, every statistic -- the means, the 95th percentiles, the least and the
\* greatest ttft -- present and null, total_requests = the number of outcomes,
\* successful_requests = 0, and the context and prompt metrics of the first
\* outcome of the group (0 when it is empty).
C19_ZeroSuccessRecord ==
    \A k \in NoSuccess :
        LET record == summary[1][k]
            results == all_results[k].results
        IN  /\ record.success_rate = Whole(0)
            /\ StatKeys \subseteq DOMAIN record
            /\ \A key \in StatKeys : record[key] = None
            /\ record.total_requests = Len(results)
            /\ record.successful_requests = 0
            /\ record.context_chars
                  = IF results = << >> THEN 0 ELSE results[1].context_char_count
            /\ record.prompt_chars
                  = IF results = << >> THEN 0 ELSE results[1].prompt_char_count
            /\ record.prompt_tokens
                  = IF results = << >> THEN 0 ELSE results[1].prompt_tokens_estimate

\* the successful outcomes of the k-th group, and those among them whose
\* prompt_throughput is above zero
Successes(k) == SelectSeq(all_results[k].results, LAMBDA r : r.success)
PositivePromptTps(k) == SelectSeq(Successes(k), LAMBDA r : r.prompt_throughput.num > 0)

\* C20 (prompt-throughput exclusion): in the record of a group with a success,
\* the mean and the 95th percentile of prompt throughput are taken over the
\* successful outcomes whose prompt_throughput is above zero, and are null
\* when there is none; the latency and generation-throughput statistics and
\* the counts are taken over every successful outcome, those of prompt
\* throughput zero included.
C20_PromptTpsExclusion ==
    \A k \in SomeSuccess :
        LET record == summary[1][k]
            positive == [ j \in DOMAIN PositivePromptTps(k) |->
                            Reduce(PositivePromptTps(k)[j].prompt_throughput) ]
            elapsed == [ j \in DOMAIN Successes(k) |-> Whole(Successes(k)[j].elapsed_time) ]
            generation == [ j \in DOMAIN Successes(k) |->
                              Reduce(Successes(k)[j].generation_throughput) ]
        IN  /\ IF positive = << >>
               THEN record.avg_prompt_tps = None /\ record.p95_prompt_tps = None
               ELSE /\ record.avg_prompt_tps
                          = Some(RatScale(RatSum(positive), 1, Len(positive)))
                    /\ record.p95_prompt_tps = Some(Percentile(positive, 95))
                    /\ RatLe(MinOf(positive), record.avg_prompt_tps[1])
                    /\ ~RatLe(record.avg_prompt_tps[1], Whole(0))
            /\ record.avg_latency = Some(RatScale(RatSum(elapsed), 1, Len(Successes(k))))
            /\ record.p95_latency = Some(Percentile(elapsed, 95))
            /\ record.avg_generation_tps
                  = Some(RatScale(RatSum(generation), 1, Len(Successes(k))))
            /\ record.successful_requests = Len(Successes(k))
            /\ record.success_rate
                  = RatScale(Whole(Len(Successes(k))), 100, Len(all_results[k].results))

\* three successes, two of prompt throughput zero and one of 8 tokens a
\* second: the mean prompt throughput is 8, the mean latency that of the three
C20_Witness ==
    /\ summary # None
    /\ Len(all_results[1].results) = 3
    /\ Len(Successes(1)) = 3
    /\ Len(PositivePromptTps(1)) = 1
    /\ summary[1][1].avg_prompt_tps = Some(Whole(8))
    /\ summary[1][1].p95_prompt_tps = Some(Whole(8))
    /\ summary[1][1].avg_latency = Some(Ratio(4, 3))
    /\ summary[1][1].successful_requests = 3

\* every success has prompt throughput zero: its statistics are null, the
\* others are computed
C20_WitnessAllZero ==
    /\ summary # None
    /\ Len(Successes(1)) = 2
    /\ PositivePromptTps(1) = << >>
    /\ summary[1][1].avg_prompt_tps = None
    /\ summary[1][1].avg_latency # None
    /\ summary[1][1].avg_generation_tps # None

\* the sum of the elapsed times of a list of successful outcomes
RECURSIVE TotalElapsed(_)
TotalElapsed(results) ==
    IF results = << >> THEN 0 ELSE results[1].elapsed_time + TotalElapsed(Tail(results))

\* the statistics the analyzer computes for the successes of the k-th group
\* taken alone
AloneRecord(k) == SummaryRecord(Group(all_results[k].context_size, Successes(k)))

\* C21 (statistics over the successes only): in the record of a group with a
\* success, total_requests is the number of outcomes, successful_requests the
\* number of those with success = true, success_rate their quotient times
\* 100; every latency, throughput and ttft statistic is what the analyzer
\* computes for the successes alone, whatever failed outcomes the group holds
\* and wherever they stand; the mean latency is the sum of the elapsed times of
\* the successes over their number; and successes that took 1, 2, 3 and 4
\* seconds give the mean latency 2.5 and the 95th percentile 3.85.
C21_SuccessesOnly ==
    \A k \in SomeSuccess :
        LET record == summary[1][k]
            results == all_results[k].results
            successes == Cardinality({ j \in DOMAIN results : results[j].success })
        IN  /\ record.total_requests = Len(results)
            /\ record.successful_requests = successes
            /\ record.success_rate.den > 0
            /\ record.success_rate.num * Len(results) = 100 * successes * record.success_rate.den
            /\ \A key \in StatKeys : record[key] = AloneRecord(k)[key]
            /\ record.avg_latency # None
            /\ record.avg_latency[1].num * successes
                  = TotalElapsed(Successes(k)) * record.avg_latency[1].den
            /\ [ j \in DOMAIN Successes(k) |-> Successes(k)[j].elapsed_time ] = << 1, 2, 3, 4 >>
                  => /\ record.avg_latency = Some(Ratio(5, 2))
                     /\ record.p95_latency = Some(Ratio(77, 20))

\* successes of 1, 2, 3 and 4 seconds with a timeout between them
C21_Witness ==
    /\ summary # None
    /\ Len(all_results[1].results) = 5
    /\ ~all_results[1].results[3].success
    /\ [ j \in DOMAIN Successes(1) |-> Successes(1)[j].elapsed_time ] = << 1, 2, 3, 4 >>
    /\ summary[1][1].avg_latency = Some(Ratio(5, 2))
    /\ summary[1][1].p95_latency = Some(Ratio(77, 20))
    /\ summary[1][1].success_rate = Whole(80)
    /\ summary[1][1].total_requests = 5
    /\ summary[1][1].successful_requests = 4

\* C22 (one record per group): the analyzer returns as many records as it was
\* given groups; the k-th record carries the context size label and the
\* concurrency level of the k-th group and counts that group's outcomes; and
\* the step that produces the summary leaves the groups and their outcomes as
\* they were.
C22_RecordPerGroup ==
    /\ [](summary # None =>
            /\ Len(summary[1]) = Len(all_results)
            /\ \A k \in DOMAIN all_results :
                  /\ summary[1][k].context_size = all_results[k].context_size
                  /\ summary[1][k].concurrency = all_results[k].concurrency
                  /\ summary[1][k].total_requests = Len(all_results[k].results)
                  /\ summary[1][k].successful_requests = Len(Successes(k)))
    /\ [][summary' # summary => all_results' = all_results /\ args' = args]_vars

\* three groups analyzed, of two labels, the last one holding a failure
C22_Witness ==
    /\ summary # None
    /\ Len(all_results) = 3
    /\ all_results[1].context_size # all_results[2].context_size
    /\ all_results[1].context_size = all_results[3].context_size
    /\ Len(all_results[1].results) >= 2
    /\ 3 \in NoSuccess
    /\ summary[1][2].context_size = all_results[2].context_size
    /\ summary[1][3].successful_requests = 0

\* C23 (the driver touches no shared state): the template table and the
\* question set are constants; of the state shared by the requests of a
\* process, no step of make_context_request changes the generator of the
\* random module.
C23_NoSharedState == [][random_state' = random_state]_vars

\* what does hold: the requests draw in the order of their numbers, so that
\* the draws made are the requests entered so far that needed a question
EnteredWithQuestion ==
    { r \in DOMAIN req : /\ context_sizes[r[1]] # "13t"
                         /\ \/ r[1] < si
                            \/ r[1] = si /\ req[r].st \notin { "new", "waiting" } }

C23_DrawPerQuestion == random_state = Cardinality(EnteredWithQuestion)

\* C24 (the orchestrator never fails on an outcome): in either mode, the
\* orchestrator raises only an error that a request raised; recording an
\* outcome a request returned and reporting progress on it raises nothing,
\* also when the outcome is a success whose ttft is null.
C24_OutcomeNeverRaises ==
    [][pc' = "raised" /\ pc # "raised"
          => /\ pc = "seq_await"
             /\ req[<< si, i + 1 >>].result # None
             /\ req[<< si, i + 1 >>].result[1].raised]_vars

\* what does hold: the orchestrator fails on an outcome only in sequential
\* mode and only on a success without ttft
C24_RaisesOnNullTtft ==
    [][pc' = "raised" /\ pc # "raised" /\ ~req[<< si, i + 1 >>].result[1].raised
          => /\ concurrency = 1
             /\ req[<< si, i + 1 >>].result[1].value.success
             /\ req[<< si, i + 1 >>].result[1].value.ttft = None]_vars

\* the positions of the sequential loop
SeqPositions == { "seq", "seq_await", "seq_sleep" }

\* C25 (termination for every concurrency level): the sequential loop runs
\* only when concurrency = 1 and the gated batch for every other value; and for
\* every concurrency >= 0, zero included, and every requests_per_size, when
\* every admitted request produces its outcome, run_context_benchmark
\* eventually returns.
C25_Terminates ==
    /\ [](pc \in SeqPositions => concurrency = 1)
    /\ [](pc = "gather" => concurrency # 1)
    /\ <>(pc = "returned")

\* what does hold: the run returns for every concurrency >= 1, and for
\* concurrency 0 when no request is to be made; with concurrency 0 and a
\* request to make, every task waits for the semaphore for ever
C25_TerminatesWhenAdmitting ==
    /\ [](pc \in SeqPositions => concurrency = 1)
    /\ [](pc = "gather" => concurrency # 1)
    /\ (concurrency >= 1 \/ num_requests_per_size = 0) => <>(pc = "returned")
    /\ (concurrency = 0 /\ num_requests_per_size > 0) => [](pc # "returned")

C25_AllWaiting ==
    /\ concurrency = 0
    /\ pc = "gather"
    /\ Len(waiters) = num_requests_per_size
    /\ num_requests_per_size > 0
    /\ semaphore = 0

\* C26 (only the last group can be incomplete or hold a failure): in the list
\* of groups, at every moment and so when it is returned, every group but the
\* last holds exactly num_requests_per_size outcomes, all of them successes; no
\* group holds more; and the last group holds fewer only in sequential mode
\* and only when its final outcome is a failure.
C26_OnlyLastIncomplete ==
    \A k \in DOMAIN all_results :
        LET results == all_results[k].results
        IN  /\ Len(results) <= num_requests_per_size
            /\ k < Len(all_results)
                  => /\ Len(results) = num_requests_per_size
                     /\ \A j \in DOMAIN results : results[j].success
            /\ Len(results) < num_requests_per_size
                  => /\ k = Len(all_results)
                     /\ concurrency = 1
                     /\ results # << >>
                     /\ ~results[Len(results)].success

\* a sequential run returned a full group and a group cut short by a failure
C26_Witness ==
    /\ pc = "returned"
    /\ concurrency = 1
    /\ Len(all_results) = 2
    /\ Len(all_results[1].results) = num_requests_per_size
    /\ Len(all_results[2].results) = 2
    /\ num_requests_per_size = 3
    /\ all_results[2].results[1].success
    /\ ~all_results[2].results[2].success

\* a concurrent run returned a full group and a full group with a failure in
\* its middle
C26_WitnessBatch ==
    /\ pc = "returned"
    /\ concurrency = 2
    /\ Len(all_results) = 2
    /\ Len(all_results[2].results) = 3
    /\ num_requests_per_size = 3
    /\ ~all_results[2].results[2].success
    /\ all_results[2].results[3].success

\* the requests whose stream is being read or has been read
Streaming == { r \in DOMAIN req : req[r].st \in { "stream", "done" } }

\* C27 (timing order): the clock never goes back; in every successful outcome
\* built after a chunk was observed, start_time <= first_token_time <=
\* end_time, and so 0 <= ttft <= elapsed_time whenever ttft is not null; the
\* first chunk observed, with or without text in it, sets first_token_time to
\* the time it is observed at (the clock's reading before the stream is read
\* on or ended), and no later step of the request changes it.
C27_TimingOrder ==
    /\ [](\A r \in Counted :
              LET outcome == OutcomeOf(r)
                  s == req[r].locals
              IN  /\ outcome.start_time <= outcome.end_time
                  /\ outcome.end_time <= now
                  /\ s.chunk_count > 0 =>
                        /\ s.first_token_time # None
                        /\ outcome.start_time <= s.first_token_time[1]
                        /\ s.first_token_time[1] <= outcome.end_time
                  /\ outcome.ttft # None =>
                        /\ 0 <= outcome.ttft[1]
                        /\ outcome.ttft[1] <= outcome.elapsed_time)
    /\ [][/\ now' >= now
          /\ \A r \in Streaming :
                /\ (req[r].locals.chunk_count = 0 /\ req'[r].locals.chunk_count > 0)
                      => /\ req'[r].locals.first_token_time # None
                         /\ now <= req'[r].locals.first_token_time[1]
                         /\ req'[r].locals.first_token_time[1] <= now'
                         /\ req'[r].st = "stream"
                               => req'[r].locals.first_token_time = Some(now')
                /\ (req[r].locals.first_token_time # None /\ req'[r].st \in { "stream", "done" })
                      => req'[r].locals.first_token_time = req[r].locals.first_token_time]_vars

\* a success of two chunks, the first without text and observed after the
\* start, the second with text: ttft is the time of the first
C27_Witness ==
    \E r \in Counted :
        /\ Len(req[r].stream) = 2
        /\ req[r].stream[1].content = << >>
        /\ req[r].stream[1].reasoning_content = << >>
        /\ req[r].stream[2].content # << >>
        /\ OutcomeOf(r).start_time = 1
        /\ req[r].locals.first_token_time = Some(2)
        /\ OutcomeOf(r).end_time = 2
        /\ OutcomeOf(r).ttft = Some(1)
        /\ OutcomeOf(r).elapsed_time = 1

\* a success whose first chunk came at once and whose stream ended later
C27_WitnessLate ==
    \E r \in Counted :
        /\ OutcomeOf(r).start_time = 1
        /\ req[r].locals.first_token_time = Some(1)
        /\ OutcomeOf(r).end_time = 2
        /\ OutcomeOf(r).ttft = Some(0)
        /\ OutcomeOf(r).elapsed_time = 1

=============================================================================
